---- MODULE Spec2Model ----
(***************************************************************************)
(* Weekly report generator of src/skimage_weekly_update.py:                *)
(* Categories.from_report_range sorts the issues and pull requests that    *)
(* repo.get_issues yields into seven lists, main prints the lists and      *)
(* three summary numbers.                                                  *)
(***************************************************************************)
EXTENDS Integers, Sequences, FiniteSets, TLC

\* ------------------------------------------------------------------ bounds
\* Longest feed repo.get_issues yields.
MaxFeed == 2
\* Timestamps are the instants 0..MaxTime; the window's stop may be MaxTime+1.
MaxTime == 1

\* ------------------------------------------------------------- data model
\* Python's None, for a timestamp the tracker did not set.
None == -1

Times == 0..MaxTime

NullableTimes == Times \cup {None}

\* The attributes of a github.Issue that from_report_range reads.  merged_at
\* is the attribute behind as_pull_request().is_merged().
Item == [is_pr : BOOLEAN, state : {"open", "closed"},
         created_at : NullableTimes, updated_at : NullableTimes,
         closed_at : NullableTimes, merged_at : NullableTimes]

\* item.as_pull_request().is_merged()
is_merged(item) == item.merged_at # None

\* An item as the tracker reports it: it was created before it was closed
\* and closing or merging it updated it; it is closed exactly when it has a
\* closed_at; a merged pull request is closed, at the instant it was merged.
WellFormed(item) ==
    /\ item.created_at # None
    /\ item.updated_at # None
    /\ item.created_at <= item.updated_at
    /\ item.closed_at # None =>
          /\ item.created_at <= item.closed_at
          /\ item.closed_at <= item.updated_at
    /\ item.state = "closed" <=> item.closed_at # None
    /\ is_merged(item) =>
          /\ item.is_pr
          /\ item.state = "closed"
          /\ item.closed_at = item.merged_at

\* An item that was closed and opened again and still shows the closed_at
\* of its closing.
Reopened(item) ==
    /\ item.created_at # None
    /\ item.updated_at # None
    /\ item.closed_at # None
    /\ item.created_at <= item.closed_at
    /\ item.closed_at <= item.updated_at
    /\ item.state = "open"
    /\ item.merged_at = None

\* An item with a timestamp missing: an open one that was never closed.
Malformed(item) ==
    /\ item.created_at = None \/ item.updated_at = None
    /\ item.state = "open"
    /\ item.closed_at = None
    /\ item.merged_at = None

\* Nothing happened to the item after it was closed.
ClosedLast(item) == item.closed_at \in {None, item.updated_at}

\* The items tried at every place of a feed: the well-formed items that were
\* last updated by their closing, if they were closed, and the issues whose
\* created_at is missing.
CoreItem ==
    {item \in Item :
        \/ WellFormed(item) /\ ClosedLast(item)
        \/ Malformed(item) /\ item.created_at = None /\ ~item.is_pr}

\* Every item tried.
FeedItem ==
    {item \in Item : WellFormed(item) \/ Reopened(item) \/ Malformed(item)}

\* The feeds repo.get_issues can yield; an item is referred to by its
\* position in the feed.  Feeds of up to MaxFeed items hold the items of
\* CoreItem; every item of FeedItem is tried in a feed of one item.
Feeds == UNION {[1..n -> CoreItem] : n \in 0..MaxFeed}
            \cup [1..1 -> FeedItem]

BucketNames == {"new_open_issues", "closed_issues", "other_active_issues",
                "new_open_prs", "merged_prs", "closed_prs", "other_active_prs"}

PrBuckets == {"new_open_prs", "merged_prs", "closed_prs", "other_active_prs"}

IssueBuckets == {"new_open_issues", "closed_issues", "other_active_issues"}

\* ------------------------------------------------------------------ state
VARIABLES
    feed,              \* issues_n_prs, the items repo.get_issues yields
    start, stop,       \* the report window
    pos,               \* number of items the loop has taken from the feed
    categories,        \* the Categories instance: bucket name -> list of items
    pc,                \* "loop", "categorized" (from_report_range returned), "reported"
    total_pr_diff,     \* the three numbers main prints
    total_issue_diff,
    total_active

weeklyVars == <<feed, start, stop, pos, categories, pc,
                total_pr_diff, total_issue_diff, total_active>>

\* print_list of src/skimage_weekly_update.py
VARIABLES
    items,             \* the list print_list is called with
    printed,           \* the items print_list has printed, in order
    pcPrint            \* "call", "done"

printVars == <<items, printed, pcPrint>>

\* run_benchmark of src/benchmarks/benchmark_suite.py
VARIABLES
    functions,            \* the functions inspect.getmembers found
    fpos,                 \* number of functions the loop has handled
    only_one_argument,    \* what only_one_nondefault returned for the last one
    times,                \* the functions that were called and timed
    non_tested_functions  \* the functions that were not, or that raised

benchVars == <<functions, fpos, only_one_argument, times, non_tested_functions>>

\* the filtering loop of src/skimage_filter_dependents.py
VARIABLES
    package,                   \* p, the package of popular_packages at hand
    ppos,                      \* number of packages the loop has handled
    popular_filtered_packages  \* the places in popular_packages of those retained

filterVars == <<package, ppos, popular_filtered_packages>>

\* the scraping loop of src/skimage_filter_dependents.py
VARIABLES
    page_i,            \* number of pages requested
    url,               \* the URL the next request goes to
    package_list,      \* the packages found
    ghost_list,        \* the ghost entries found
    prev_len,
    paginationContainers,  \* the pagination anchors of the last page parsed
    pcScrape           \* "loop", or why the loop was left

scrapeVars ==
    <<page_i, url, package_list, ghost_list, prev_len, paginationContainers,
      pcScrape>>

vars == <<weeklyVars, printVars, benchVars, filterVars, scrapeVars>>

\* The state of a script that is not run.
IdleWeekly ==
    /\ feed = <<>> /\ start = 0 /\ stop = 0 /\ pos = 0
    /\ categories = <<>> /\ pc = "idle"
    /\ total_pr_diff = 0 /\ total_issue_diff = 0 /\ total_active = 0

IdlePrint == items = <<>> /\ printed = <<>> /\ pcPrint = "idle"

IdleBench ==
    /\ functions = <<>> /\ fpos = 0 /\ only_one_argument = FALSE
    /\ times = <<>> /\ non_tested_functions = <<>>

IdleFilter ==
    /\ package = <<>> /\ ppos = 0
    /\ popular_filtered_packages = <<>>

IdleScrape ==
    /\ page_i = 0 /\ url = "idle" /\ package_list = {} /\ ghost_list = {}
    /\ prev_len = 0 /\ paginationContainers = <<>> /\ pcScrape = "idle"

\* -------------------------------------------------------- from_report_range
\* in_report_range with stop included.
in_report_range_InclusiveStop(date) ==
    IF date = None THEN FALSE ELSE start <= date /\ date <= stop

in_report_range(date) ==
    IF date = None THEN FALSE ELSE start <= date /\ date < stop

new_in_range(item) == in_report_range(item.created_at)

\* closed_in_range without the test of the state.
closed_in_range_NoState(item) == in_report_range(item.closed_at)

closed_in_range(item) == in_report_range(item.closed_at) /\ item.state = "closed"

\* category with is_pr inverted.
category_TypeInverted(item) ==
    IF ~item.is_pr
    THEN IF closed_in_range(item)
         THEN IF is_merged(item) THEN "merged_prs" ELSE "closed_prs"
         ELSE IF new_in_range(item) THEN "new_open_prs" ELSE "other_active_prs"
    ELSE IF closed_in_range(item) THEN "closed_issues"
         ELSE IF new_in_range(item) THEN "new_open_issues"
         ELSE "other_active_issues"

\* category with new_in_range tested before closed_in_range.
category_NewFirst(item) ==
    IF item.is_pr
    THEN IF new_in_range(item) THEN "new_open_prs"
         ELSE IF closed_in_range(item)
         THEN IF is_merged(item) THEN "merged_prs" ELSE "closed_prs"
         ELSE "other_active_prs"
    ELSE IF new_in_range(item) THEN "new_open_issues"
         ELSE IF closed_in_range(item) THEN "closed_issues"
         ELSE "other_active_issues"

\* category with is_merged tested outside closed_in_range.
category_MergedFirst(item) ==
    IF item.is_pr
    THEN IF is_merged(item) THEN "merged_prs"
         ELSE IF closed_in_range(item) THEN "closed_prs"
         ELSE IF new_in_range(item) THEN "new_open_prs" ELSE "other_active_prs"
    ELSE IF closed_in_range(item) THEN "closed_issues"
         ELSE IF new_in_range(item) THEN "new_open_issues"
         ELSE "other_active_issues"

\* category without the test of is_merged.
category_ClosedIgnoresMerged(item) ==
    IF item.is_pr
    THEN IF closed_in_range(item) THEN "closed_prs"
         ELSE IF new_in_range(item) THEN "new_open_prs" ELSE "other_active_prs"
    ELSE IF closed_in_range(item) THEN "closed_issues"
         ELSE IF new_in_range(item) THEN "new_open_issues"
         ELSE "other_active_issues"

\* category without the elif new_in_range branches.
category_NewAsOther(item) ==
    IF item.is_pr
    THEN IF closed_in_range(item)
         THEN IF is_merged(item) THEN "merged_prs" ELSE "closed_prs"
         ELSE "other_active_prs"
    ELSE IF closed_in_range(item) THEN "closed_issues"
         ELSE "other_active_issues"

\* The if/elif chain that picks the one list an item is appended to.
category(item) ==
    IF item.is_pr
    THEN IF closed_in_range(item)
         THEN IF is_merged(item) THEN "merged_prs" ELSE "closed_prs"
         ELSE IF new_in_range(item) THEN "new_open_prs" ELSE "other_active_prs"
    ELSE IF closed_in_range(item) THEN "closed_issues"
         ELSE IF new_in_range(item) THEN "new_open_issues"
         ELSE "other_active_issues"

\* cls(): every list empty.
EmptyCategories == [b \in BucketNames |-> <<>>]

Init ==
    /\ feed \in Feeds
    /\ start \in Times
    /\ stop \in 0..(MaxTime + 1)
    /\ pos = 0
    /\ categories = EmptyCategories
    /\ pc = "loop"
    /\ total_pr_diff = 0
    /\ total_issue_diff = 0
    /\ total_active = 0
    /\ IdlePrint /\ IdleBench /\ IdleFilter /\ IdleScrape

\* Classify as independent tagging: an item created inside the window is
\* appended to the new list of its type besides the list of its category.
Classify_Overlapping ==
    /\ pc = "loop"
    /\ pos < Len(feed)
    /\ in_report_range(feed[pos + 1].updated_at)
    /\ LET item == feed[pos + 1]
           new == IF item.is_pr THEN "new_open_prs" ELSE "new_open_issues"
           one == [categories EXCEPT ![category(item)] = Append(@, pos + 1)]
       IN  categories' = IF new_in_range(item) /\ category(item) # new
                         THEN [one EXCEPT ![new] = Append(@, pos + 1)]
                         ELSE one
    /\ pos' = pos + 1
    /\ UNCHANGED <<feed, start, stop, pc,
                   total_pr_diff, total_issue_diff, total_active>>
    /\ UNCHANGED <<printVars, benchVars, filterVars, scrapeVars>>

\* One pass of the loop body for an item inside the window.
Classify ==
    /\ pc = "loop"
    /\ pos < Len(feed)
    /\ in_report_range(feed[pos + 1].updated_at)
    /\ categories' = [categories EXCEPT
                        ![category(feed[pos + 1])] = Append(@, pos + 1)]
    /\ pos' = pos + 1
    /\ UNCHANGED <<feed, start, stop, pc,
                   total_pr_diff, total_issue_diff, total_active>>
    /\ UNCHANGED <<printVars, benchVars, filterVars, scrapeVars>>

\* Break with continue in the place of break.
Break_Continue ==
    /\ pc = "loop"
    /\ pos < Len(feed)
    /\ ~in_report_range(feed[pos + 1].updated_at)
    /\ pos' = pos + 1
    /\ UNCHANGED <<feed, start, stop, categories, pc,
                   total_pr_diff, total_issue_diff, total_active>>
    /\ UNCHANGED <<printVars, benchVars, filterVars, scrapeVars>>

\* The loop takes an item outside the window and breaks.
Break ==
    /\ pc = "loop"
    /\ pos < Len(feed)
    /\ ~in_report_range(feed[pos + 1].updated_at)
    /\ pos' = pos + 1
    /\ pc' = "categorized"
    /\ UNCHANGED <<feed, start, stop, categories,
                   total_pr_diff, total_issue_diff, total_active>>
    /\ UNCHANGED <<printVars, benchVars, filterVars, scrapeVars>>

\* The feed is exhausted: the loop ends and categories is returned.
Exhaust ==
    /\ pc = "loop"
    /\ pos = Len(feed)
    /\ pc' = "categorized"
    /\ UNCHANGED <<feed, start, stop, pos, categories,
                   total_pr_diff, total_issue_diff, total_active>>
    /\ UNCHANGED <<printVars, benchVars, filterVars, scrapeVars>>

\* ------------------------------------------------------------------- main
RECURSIVE Concat(_, _)
\* self.a + self.b + ... for the lists named in the sequence names
Concat(cats, names) ==
    IF names = <<>> THEN <<>>
    ELSE cats[Head(names)] \o Concat(cats, Tail(names))

\* set(items)
ToSet(list) == {list[i] : i \in 1..Len(list)}

\* all_active_prs without other_active_prs.
all_active_prs_NoOther(cats) ==
    ToSet(Concat(cats, <<"new_open_prs", "merged_prs", "closed_prs">>))

all_active_prs(cats) ==
    ToSet(Concat(cats, <<"new_open_prs", "merged_prs", "closed_prs",
                         "other_active_prs">>))

all_active_issues(cats) ==
    ToSet(Concat(cats, <<"new_open_issues", "closed_issues",
                         "other_active_issues">>))

\* Report with closed_prs left out of the pull request delta.
Report_NoClosed ==
    /\ pc = "categorized"
    /\ total_issue_diff' = Len(categories["new_open_issues"])
                             - Len(categories["closed_issues"])
    /\ total_pr_diff' = Len(categories["new_open_prs"])
                          - Len(categories["merged_prs"])
    /\ total_active' = Cardinality(all_active_prs(categories))
                         + Cardinality(all_active_issues(categories))
    /\ pc' = "reported"
    /\ UNCHANGED <<feed, start, stop, pos, categories>>
    /\ UNCHANGED <<printVars, benchVars, filterVars, scrapeVars>>

\* main after from_report_range returned: the lists are printed, then the
\* three numbers.
Report ==
    /\ pc = "categorized"
    /\ total_issue_diff' = Len(categories["new_open_issues"])
                             - Len(categories["closed_issues"])
    /\ total_pr_diff' = Len(categories["new_open_prs"])
                          - Len(categories["merged_prs"])
                          - Len(categories["closed_prs"])
    /\ total_active' = Cardinality(all_active_prs(categories))
                         + Cardinality(all_active_issues(categories))
    /\ pc' = "reported"
    /\ UNCHANGED <<feed, start, stop, pos, categories>>
    /\ UNCHANGED <<printVars, benchVars, filterVars, scrapeVars>>

Next == Classify \/ Break \/ Exhaust \/ Report

Spec == Init /\ [][Next]_vars

\* ----------------------------------------------------- vocabulary of claims
\* The items a list of the Categories instance holds.
Bucket(b) == ToSet(categories[b])

\* The items some list holds.
Bucketed == UNION {Bucket(b) : b \in BucketNames}

\* The items the loop took from the feed and did not break on.
Consumed == {i \in 1..pos : in_report_range(feed[i].updated_at)}

\* from_report_range has returned.
Returned == pc \in {"categorized", "reported"}

\* The feed is sorted ascending by updated_at.
Sorted ==
    \A i, j \in 1..Len(feed) :
        i < j => /\ feed[i].updated_at # None
                 /\ feed[j].updated_at # None
                 /\ feed[i].updated_at <= feed[j].updated_at

\* The feed holds no item updated before start (since=start).
PreFiltered ==
    \A i \in 1..Len(feed) :
        feed[i].updated_at # None /\ feed[i].updated_at >= start

AtOrAfterStop(i) == feed[i].updated_at # None /\ feed[i].updated_at >= stop

\* The first item of the feed whose updated_at >= stop.
FirstAtOrAfterStop(k) ==
    /\ k \in 1..Len(feed)
    /\ AtOrAfterStop(k)
    /\ \A i \in 1..(k - 1) : ~AtOrAfterStop(i)

NewBucket(item) == IF item.is_pr THEN "new_open_prs" ELSE "new_open_issues"

OtherBucket(item) ==
    IF item.is_pr THEN "other_active_prs" ELSE "other_active_issues"

OwnBuckets(item) == IF item.is_pr THEN PrBuckets ELSE IssueBuckets

\* merged_in_range of the specification.
merged_in_range(item) ==
    item.merged_at # None /\ start <= item.merged_at /\ item.merged_at < stop

\* ---------------------------------------------------------------- claims

\* C1: the loop takes no item beyond the first one whose updated_at >= stop:
\* that item and every item after it are in no bucket, also when a later
\* item is updated inside the window; on a sorted, pre-filtered feed the
\* loop stops exactly there.
C1_EarlyTermination ==
    \A k \in 1..Len(feed) :
        FirstAtOrAfterStop(k) =>
            /\ pos <= k
            /\ \A b \in BucketNames :
                  \A l \in 1..Len(categories[b]) : categories[b][l] < k
            /\ (Returned /\ Sorted /\ PreFiltered) => pos = k

\* C1 witness: the loop broke on the first item, and the item after it,
\* updated inside the window, was left alone.
C1_Witness ==
    /\ Returned
    /\ Len(feed) >= 2
    /\ FirstAtOrAfterStop(1)
    /\ in_report_range(feed[2].updated_at)
    /\ pos = 1
    /\ Bucketed = {}

\* C2: after from_report_range on a sorted, pre-filtered feed every item
\* updated inside the window is in a bucket of its own type.
C2_Coverage ==
    (Returned /\ Sorted /\ PreFiltered) =>
        \A i \in 1..Len(feed) :
            in_report_range(feed[i].updated_at) =>
                \E b \in OwnBuckets(feed[i]) : i \in Bucket(b)

\* C2 witness: a sorted, pre-filtered feed with an item inside the window
\* and an item at or after stop has been categorized.
C2_Witness ==
    /\ Returned
    /\ Sorted /\ PreFiltered
    /\ Len(feed) >= 2
    /\ in_report_range(feed[1].updated_at)
    /\ AtOrAfterStop(Len(feed))
    /\ 1 \in Bucketed

C5_ClosedPrTagging ==
    /\ \A i \in Consumed :
          feed[i].is_pr =>
              (i \in Bucket("closed_prs")
                  <=> (closed_in_range(feed[i]) /\ ~is_merged(feed[i])))
    /\ \A i \in Bucket("closed_prs") : ~is_merged(feed[i])
    /\ Bucket("merged_prs") \cap Bucket("closed_prs") = {}

\* C5 witness: a pull request closed unmerged and a pull request merged,
\* both inside the window, were consumed.
C5_Witness ==
    /\ Returned
    /\ \E i \in Consumed :
          feed[i].is_pr /\ closed_in_range(feed[i]) /\ ~is_merged(feed[i])
    /\ \E i \in Consumed :
          feed[i].is_pr /\ closed_in_range(feed[i]) /\ is_merged(feed[i])

\* The new, merged and closed tags of the specification.
NewTag(item) == new_in_range(item)

MergedTag(item) == item.is_pr /\ is_merged(item) /\ merged_in_range(item)

ClosedTag(item) ==
    IF item.is_pr THEN closed_in_range(item) /\ ~is_merged(item)
    ELSE closed_in_range(item)

C7_ClosedIssueTagging ==
    \A i \in Consumed :
        ~feed[i].is_pr =>
            (i \in Bucket("closed_issues")
                <=> /\ feed[i].closed_at # None
                    /\ start <= feed[i].closed_at
                    /\ feed[i].closed_at < stop
                    /\ feed[i].state = "closed")

\* C7 witness: an issue closed inside the window and open again was
\* consumed.
C7_Witness ==
    /\ Returned
    /\ \E i \in Consumed :
          /\ ~feed[i].is_pr
          /\ feed[i].closed_at # None
          /\ start <= feed[i].closed_at
          /\ feed[i].closed_at < stop
          /\ feed[i].state = "open"

\* C8: the printed pull request delta is len(new_open_prs) - len(merged_prs)
\* - len(closed_prs) and the printed issue delta is len(new_open_issues) -
\* len(closed_issues), over the lists from_report_range returned.
C8_DeltaArithmetic ==
    pc = "reported" =>
        /\ total_pr_diff = Cardinality(Bucket("new_open_prs"))
                             - Cardinality(Bucket("merged_prs"))
                             - Cardinality(Bucket("closed_prs"))
        /\ total_issue_diff = Cardinality(Bucket("new_open_issues"))
                                - Cardinality(Bucket("closed_issues"))

\* C8 witness: a report with a negative pull request delta and a positive
\* issue delta was printed.
C8_Witness ==
    /\ pc = "reported"
    /\ total_pr_diff < 0
    /\ total_issue_diff > 0

\* The lists as overlapping tagging would fill them: every merged pull
\* request is in new_open_prs too, every closed issue in new_open_issues.
Overlapping(cats) ==
    [cats EXCEPT !["new_open_prs"] = @ \o cats["merged_prs"],
                 !["new_open_issues"] = @ \o cats["closed_issues"]]

\* C9: total_active is the number of distinct items in the pull request
\* buckets plus the number of distinct items in the issue buckets; an item
\* held by two buckets of its type counts once.
C9_TotalActive ==
    pc = "reported" =>
        /\ total_active =
              Cardinality({i \in 1..Len(feed) : \E b \in PrBuckets : i \in Bucket(b)})
              + Cardinality({i \in 1..Len(feed) :
                               \E b \in IssueBuckets : i \in Bucket(b)})
        /\ Cardinality(all_active_prs(Overlapping(categories)))
              + Cardinality(all_active_issues(Overlapping(categories)))
              = total_active

\* C9 witness: a report over a pull request and an issue, both closed inside
\* the window, was printed.
C9_Witness ==
    /\ pc = "reported"
    /\ Bucket("merged_prs") \cup Bucket("closed_prs") # {}
    /\ Bucket("closed_issues") # {}
    /\ total_active = 2

\* C10 failing input: a window with start >= stop and a feed of at least one
\* item, for which from_report_range returned an empty Categories.
C10_Reached ==
    /\ start >= stop
    /\ Len(feed) >= 1
    /\ Returned
    /\ Bucketed = {}

\* C10: with start >= stop the run fails and from_report_range returns no
\* Categories.
C10_InvalidWindow == start >= stop => ~Returned

\* C11 failing input: a report was printed although an issue without
\* created_at was put in a list.
C11_Reached ==
    /\ pc = "reported"
    /\ \E i \in Bucketed : feed[i].created_at = None

\* C11: once the loop has taken an item whose created_at or updated_at is
\* missing, the run aborts: from_report_range does not return and the item
\* is in no bucket.
C11_MalformedItem ==
    \A i \in 1..pos :
        (feed[i].created_at = None \/ feed[i].updated_at = None) =>
            ~Returned /\ i \notin Bucketed

\* The number of times an item is held by a list.
Occurrences(i, b) ==
    Cardinality({k \in 1..Len(categories[b]) : categories[b][k] = i})

\* The sum of the sizes of the seven lists.
SumOfSizes ==
    Len(categories["new_open_issues"]) + Len(categories["closed_issues"])
    + Len(categories["other_active_issues"]) + Len(categories["new_open_prs"])
    + Len(categories["merged_prs"]) + Len(categories["closed_prs"])
    + Len(categories["other_active_prs"])

\* C16: every consumed item is in exactly one of the seven lists, once, and
\* in a list of its own type; no other item is in a list; the sizes of the
\* lists add up to the number of items consumed.
C16_SingleBucket ==
    pc \in {"loop", "categorized", "reported"} =>
        LET held == [b \in BucketNames |-> Bucket(b)]
            consumed == Consumed
        IN  /\ SumOfSizes = Cardinality(consumed)
            /\ UNION {held[b] : b \in BucketNames} = consumed
            /\ \A i \in consumed :
                  /\ Cardinality({b \in BucketNames : i \in held[b]}) = 1
                  /\ \A b \in BucketNames :
                        i \in held[b] => /\ Occurrences(i, b) = 1
                                         /\ b \in OwnBuckets(feed[i])

\* C16 witness: a pull request and an issue, both created inside the
\* window, were consumed, one of them closed inside it.
C16_Witness ==
    /\ Returned
    /\ Cardinality(Consumed) = 2
    /\ \E i, j \in Consumed : feed[i].is_pr /\ ~feed[j].is_pr
    /\ \A i \in Consumed : new_in_range(feed[i])
    /\ \E i \in Consumed : closed_in_range(feed[i])

\* A date inside the window.
InWindow(date) == date # None /\ start <= date /\ date < stop

\* The length of the longest prefix of the feed whose items are all updated
\* inside the window.
PrefixLen ==
    CHOOSE m \in 0..Len(feed) :
        /\ \A i \in 1..m : InWindow(feed[i].updated_at)
        /\ m < Len(feed) => ~InWindow(feed[m + 1].updated_at)

\* A list holds its items in the order of the feed.
InFeedOrder(list) ==
    \A k, l \in 1..Len(list) : k < l => list[k] < list[l]

\* C17: the items categorized are those of the longest prefix of the feed
\* whose items are all updated inside the window; the loop stops on the item
\* after that prefix, and every list keeps the order of the feed.
C17_Prefix ==
    pc \in {"loop", "categorized", "reported"} =>
        LET prefix == PrefixLen
        IN  /\ \A b \in BucketNames :
                  /\ InFeedOrder(categories[b])
                  /\ \A k \in 1..Len(categories[b]) : categories[b][k] \in 1..prefix
            /\ Returned =>
                  /\ \A i \in 1..prefix :
                        \E b \in OwnBuckets(feed[i]) :
                            \E k \in 1..Len(categories[b]) : categories[b][k] = i
                  /\ pos = IF prefix < Len(feed) THEN prefix + 1 ELSE Len(feed)

\* C17 witness: the loop broke on a first item whose updated_at is missing
\* or before start, and the item after it, updated inside the window, is in
\* no list.
C17_Witness ==
    /\ Returned
    /\ Len(feed) >= 2
    /\ feed[1].updated_at = None \/ feed[1].updated_at < start
    /\ InWindow(feed[2].updated_at)
    /\ Bucketed = {}

\* ======================================================= print_list
\* Longest list print_list is called with; numbers are 1..MaxList.
MaxList == 3
\* Most comments, and most review comments, of an item.
MaxComments == 1

\* The attributes of an issue or pull request that print_list reads besides
\* its number.  Only a pull request has review_comments.
Conversation ==
    {x \in [is_pr : BOOLEAN,
            comments : 0..MaxComments, review_comments : 0..MaxComments] :
        ~x.is_pr => x.review_comments = 0}

\* The ways to number n items: no two items share a number.
Numberings(n) ==
    {f \in [1..n -> 1..MaxList] : \A i, j \in 1..n : i # j => f[i] # f[j]}

\* The item with a number and the attributes c.
Listed(number, c) ==
    [number |-> number, is_pr |-> c.is_pr,
     comments |-> c.comments, review_comments |-> c.review_comments]

conversation_len(issue_or_pr) ==
    issue_or_pr.comments
    + (IF issue_or_pr.is_pr THEN issue_or_pr.review_comments ELSE 0)

RECURSIVE sorted(_, _)
\* Python's sorted(list, key=...): ascending by key[x], stable.  The last
\* item goes behind the items of the sorted rest whose key is not larger.
sorted(list, key) ==
    IF list = <<>> THEN <<>>
    ELSE LET rest == sorted(SubSeq(list, 1, Len(list) - 1), key)
             x == list[Len(list)]
             k == Cardinality({i \in 1..Len(rest) : key[rest[i]] <= key[x]})
         IN  SubSeq(rest, 1, k) \o <<x>> \o SubSeq(rest, k + 1, Len(rest))

\* print_list with the sort by number only.
print_list_NumberOnly(list) ==
    IF list = <<>> THEN <<>>
    ELSE sorted(list, [x \in ToSet(list) |-> x.number])

\* The items print_list prints, in order ("none" for an empty list).
print_list(list) ==
    IF list = <<>> THEN <<>>
    ELSE LET sorted_items == sorted(list, [x \in ToSet(list) |-> x.number])
         IN  sorted(sorted_items,
                    [x \in ToSet(list) |-> conversation_len(x)])

InitPrint ==
    /\ \E n \in 0..MaxList :
          \E f \in Numberings(n), c \in [1..n -> Conversation] :
              items = [i \in 1..n |-> Listed(f[i], c[i])]
    /\ printed = <<>>
    /\ pcPrint = "call"
    /\ IdleWeekly /\ IdleBench /\ IdleFilter /\ IdleScrape

PrintList ==
    /\ pcPrint = "call"
    /\ printed' = print_list(items)
    /\ pcPrint' = "done"
    /\ UNCHANGED items
    /\ UNCHANGED <<weeklyVars, benchVars, filterVars, scrapeVars>>

NextPrint == PrintList

SpecPrint == InitPrint /\ [][NextPrint]_vars

\* C12 as claimed: print_list prints the items of a list in ascending order
\* of their number.
C12_AscendingNumber ==
    pcPrint = "done" =>
        \A k \in 1..(Len(printed) - 1) :
            printed[k].number < printed[k + 1].number

\* C12 amended: print_list prints every item of the list once, in ascending
\* order of its conversation length, items of equal conversation length in
\* ascending order of their number.
C12_AscendingConversation ==
    pcPrint = "done" =>
        /\ Len(printed) = Len(items)
        /\ ToSet(printed) = ToSet(items)
        /\ \A k \in 1..(Len(printed) - 1) :
              \/ conversation_len(printed[k]) < conversation_len(printed[k + 1])
              \/ /\ conversation_len(printed[k]) = conversation_len(printed[k + 1])
                 /\ printed[k].number < printed[k + 1].number

\* C12 witness: a list was printed in which the item with the larger number
\* comes first, and two items of equal conversation length follow each other.
C12_Witness ==
    /\ pcPrint = "done"
    /\ \E k \in 1..(Len(printed) - 1) :
          printed[k].number > printed[k + 1].number
    /\ \E k \in 1..(Len(printed) - 1) :
          conversation_len(printed[k]) = conversation_len(printed[k + 1])

\* ==================================================== run_benchmark
\* Most functions inspect.getmembers finds.
MaxFunctions == 2
\* Most positional parameters of a function.
MaxArgs == 2

\* inspect.getfullargspec(function): args stands for len(args.args),
\* defaults for len(args.defaults), or None when no parameter has a default.
ArgSpec ==
    {a \in [args : 0..MaxArgs, defaults : (1..MaxArgs) \cup {None}] :
        a.defaults # None => a.defaults <= a.args}

\* A function of a submodule: its argspec, whether its name is in
\* skip_functions, whether it is in parameters, whether calling it raises.
Function ==
    [spec : ArgSpec, skipped : BOOLEAN, in_parameters : BOOLEAN,
     raises : BOOLEAN]

only_one_nondefault(args) ==
    LET defaults == IF args.defaults = None THEN 0 ELSE args.defaults
    IN  IF args.args >= 1 /\ args.args - defaults <= 1 THEN TRUE ELSE FALSE

InitBench ==
    /\ functions \in UNION {[1..n -> Function] : n \in 0..MaxFunctions}
    /\ fpos = 0
    /\ only_one_argument = FALSE
    /\ times = <<>>
    /\ non_tested_functions = <<>>
    /\ IdleWeekly /\ IdlePrint /\ IdleFilter /\ IdleScrape

\* One pass of the loop over the functions.
BenchStep ==
    /\ fpos < Len(functions)
    /\ LET function == functions[fpos + 1]
           one == only_one_nondefault(function.spec)
       IN  /\ only_one_argument' = one
           /\ IF function.skipped
              THEN UNCHANGED <<times, non_tested_functions>>
              ELSE IF (one \/ function.in_parameters) /\ ~function.raises
              THEN /\ times' = Append(times, fpos + 1)
                   /\ UNCHANGED non_tested_functions
              ELSE /\ non_tested_functions' = Append(non_tested_functions, fpos + 1)
                   /\ UNCHANGED times
    /\ fpos' = fpos + 1
    /\ UNCHANGED functions
    /\ UNCHANGED <<weeklyVars, printVars, filterVars, scrapeVars>>

NextBench == BenchStep

SpecBench == InitBench /\ [][NextBench]_vars

\* The number of positional parameters without a default value.
NonDefault(args) ==
    args.args - (IF args.defaults = None THEN 0 ELSE args.defaults)

\* C14 failing input: only_one_nondefault returned True for a function all
\* of whose parameters have a default value.
C14_Reached ==
    /\ fpos >= 1
    /\ NonDefault(functions[fpos].spec) = 0
    /\ only_one_argument = TRUE

\* C14: only_one_nondefault returns True exactly when the function has
\* exactly one positional parameter without a default value.
C14_ExactlyOne ==
    fpos >= 1 =>
        (only_one_argument <=> NonDefault(functions[fpos].spec) = 1)

\* ================================================ filtering of dependents
\* Most packages in popular_packages.
MaxPackages == 3
\* Longest organization/name of a package, in characters.
MaxName == 2
\* Most topics of a package.
MaxTopics == 2

\* The characters of names: a letter in lower and in upper case, and another
\* letter.
Char == {"c", "C", "x"}

\* str.lower()
lower(str) == [i \in 1..Len(str) |-> IF str[i] = "C" THEN "c" ELSE str[i]]

\* m in str, for strings
IsSubstring(m, str) ==
    \E i \in 0..(Len(str) - Len(m)) : SubSeq(str, i + 1, i + Len(m)) = m

\* The user-configurable lists, cut down to the alphabet Char and to two
\* topics: terms in lower case, a list of topics, and a repository to omit
\* whose name matches a term.
repo_name_terms == << <<"c", "x">>, <<"c", "c">> >>

topic_search_terms == <<"cell-biology">>

omit_list == << <<"c", "x">> >>

Topic == {"cell-biology", "astronomy"}

\* An element of popular_packages: the name and the topics of the tuple
\* (name, forks, stars, topics).
Package ==
    [name : UNION {[1..n -> Char] : n \in 1..MaxName},
     topics : UNION {[1..n -> Topic] : n \in 0..MaxTopics}]

\* keep of the loop body without the test of omit_list.
keep_NoOmit(p) ==
    \/ \E k \in 1..Len(repo_name_terms) : IsSubstring(repo_name_terms[k], lower(p.name))
    \/ \E t \in 1..Len(p.topics) :
          \E k \in 1..Len(topic_search_terms) : p.topics[t] = topic_search_terms[k]

\* Whether the loop body appends p: it is not in omit_list, and a term is in
\* its name in lower case or one of its topics is in topic_search_terms.
keep(p) ==
    /\ ~(\E k \in 1..Len(omit_list) : omit_list[k] = p.name)
    /\ \/ \E k \in 1..Len(repo_name_terms) :
             IsSubstring(repo_name_terms[k], lower(p.name))
       \/ \E t \in 1..Len(p.topics) :
             \E k \in 1..Len(topic_search_terms) :
                 p.topics[t] = topic_search_terms[k]

InitFilter ==
    /\ package = <<>>
    /\ ppos = 0
    /\ popular_filtered_packages = <<>>
    /\ IdleWeekly /\ IdlePrint /\ IdleBench /\ IdleScrape

\* One pass of the loop over popular_packages, for any next element p.
FilterStep ==
    /\ ppos < MaxPackages
    /\ \E p \in Package :
          /\ package' = p
          /\ popular_filtered_packages' =
                IF keep(p) THEN Append(popular_filtered_packages, ppos + 1)
                ELSE popular_filtered_packages
    /\ ppos' = ppos + 1
    /\ UNCHANGED <<weeklyVars, printVars, benchVars, scrapeVars>>

NextFilter == FilterStep

SpecFilter == InitFilter /\ [][NextFilter]_vars

\* The package at hand was retained.
Retained ==
    \E k \in 1..Len(popular_filtered_packages) : popular_filtered_packages[k] = ppos

TermInName(str) ==
    \E k \in 1..Len(repo_name_terms) : IsSubstring(repo_name_terms[k], str)

TopicMatches(topics) ==
    \E t \in 1..Len(topics) :
        \E k \in 1..Len(topic_search_terms) : topics[t] = topic_search_terms[k]

Omitted(name) == \E k \in 1..Len(omit_list) : omit_list[k] = name

max_page_num == 3
\* Number of distinct packages the dependents pages can list.
MaxEntries == 2
\* Most anchors in the pagination container of a page.
MaxAnchors == 2

\* The (name, forks, stars) entries and the ghost entries of the pages.
PackageEntry == 1..MaxEntries

GhostEntry == {"ghost"}

\* The anchors of a pagination container: their text and their href.
Href == {"after", "before"}

Anchor == [text : {"Next", "Previous"}, href : Href]

AnchorLists == UNION {[1..n -> Anchor] : n \in 0..MaxAnchors}

\* The URL of the first request, and url = None.
FirstUrl == "dependents"

NoUrl == "None"

\* The href of the last anchor, whatever its text.
next_url_AnyAnchor(anchors) ==
    IF anchors = <<>> THEN NoUrl ELSE anchors[Len(anchors)].href

RECURSIVE next_url(_)
\* url after the loop over paginationContainers: the href of the last anchor
\* whose text is "Next", None without one.
next_url(anchors) ==
    IF anchors = <<>> THEN NoUrl
    ELSE IF anchors[Len(anchors)].text = "Next" THEN anchors[Len(anchors)].href
    ELSE next_url(SubSeq(anchors, 1, Len(anchors) - 1))

InitScrape ==
    /\ page_i = 0
    /\ url = FirstUrl
    /\ package_list = {}
    /\ ghost_list = {}
    /\ prev_len = 0
    /\ paginationContainers = <<>>
    /\ pcScrape = "loop"
    /\ IdleWeekly /\ IdlePrint /\ IdleBench /\ IdleFilter

\* One pass of the loop: the request to url, answered by any page (its
\* packages, its ghosts, and its pagination container, which may be
\* missing), then the duplicates removed, the test of no change, the search
\* of the "Next" anchor, and the end of range(max_page_num).
GetPage ==
    /\ pcScrape = "loop"
    /\ page_i < max_page_num
    /\ page_i' = page_i + 1
    /\ \E page_package_list \in SUBSET PackageEntry,
          page_ghost_list \in SUBSET GhostEntry :
          LET new_packages == package_list \cup page_package_list
              new_ghosts == ghost_list \cup page_ghost_list
              new_len == Cardinality(new_packages) + Cardinality(new_ghosts)
          IN  /\ package_list' = new_packages
              /\ ghost_list' = new_ghosts
              /\ IF new_len = prev_len
                 THEN /\ pcScrape' = "no change"
                      /\ UNCHANGED <<prev_len, url, paginationContainers>>
                 ELSE /\ prev_len' = new_len
                      /\ \/ /\ pcScrape' = "AttributeError"
                            /\ UNCHANGED <<url, paginationContainers>>
                         \/ \E anchors \in AnchorLists :
                               /\ paginationContainers' = anchors
                               /\ url' = next_url(anchors)
                               /\ pcScrape' =
                                     IF next_url(anchors) = NoUrl THEN "no next"
                                     ELSE IF page_i + 1 = max_page_num
                                          THEN "exhausted"
                                     ELSE "loop"
    /\ UNCHANGED <<weeklyVars, printVars, benchVars, filterVars>>

NextScrape == GetPage

SpecScrape == InitScrape /\ [][NextScrape]_vars

\* Every request is answered and the script goes on.
SpecScrapeFair == SpecScrape /\ WF_vars(NextScrape)

\* The number of distinct package and ghost entries.
Entries == Cardinality(package_list) + Cardinality(ghost_list)

\* A "Next" anchor of the last page parsed has this href.
NextHref(h) ==
    \E k \in 1..Len(paginationContainers) :
        /\ paginationContainers[k].text = "Next"
        /\ paginationContainers[k].href = h

\* While the loop goes on, every page so far brought a new entry and had a
\* "Next" anchor, whose href is the URL of the next request.
C15_Looping ==
    pcScrape = "loop" =>
        /\ page_i < max_page_num
        /\ Entries >= page_i
        /\ page_i >= 1 => NextHref(url)

\* A pass of the loop requests one page; the loop is left at a page that
\* brings no new entry, and at a page without a "Next" anchor.
C15_Step ==
    /\ page_i' = page_i + 1
    /\ page_i' <= max_page_num
    /\ Entries' = Entries => pcScrape' = "no change"
    /\ (\A k \in 1..Len(paginationContainers') :
            paginationContainers'[k].text # "Next") => pcScrape' # "loop"
    /\ url' # url => NextHref(url)' \/ url' = NoUrl

\* C15: the scraping loop ends, after at most max_page_num pages; it ends at
\* the first page that brings no new package or ghost entry and at the first
\* page without a "Next" anchor, and the URL it requests next is never the
\* href of an anchor other than "Next".
C15_Termination ==
    /\ []C15_Looping
    /\ [][C15_Step]_vars
    /\ <>(pcScrape # "loop")

\* C15 witness: the loop was left after max_page_num pages that each brought
\* a new entry and, beside a "Previous" anchor, a "Next" anchor.
C15_Witness ==
    /\ pcScrape = "exhausted"
    /\ page_i = max_page_num
    /\ Entries >= max_page_num
    /\ NextHref(url)
    /\ \E k \in 1..Len(paginationContainers) :
          paginationContainers[k].text = "Previous"

====
